---- MODULE Spec2Model ----
(***************************************************************************)
(* Model of RW-MSD.py: a 2D random walk (generate_random_walk), its mean   *)
(* squared displacement per time lag (calculate_msd) and the log-log fit   *)
(* (calculate_diffusion_coefficient), run in sequence by __main__.         *)
(*                                                                         *)
(* Numbers.  Coordinates are integers (increments are drawn from small     *)
(* integer sets).  A value produced by np.mean is kept as the exact        *)
(* fraction [num, den] = sum / count; den = 0 is the 0/0 that np.mean      *)
(* yields for an empty array, i.e. NaN.  Python sequences are 0-based;     *)
(* here x[k+1] holds Python's x[k], and msd[lag] holds Python's            *)
(* msd[lag - 1].                                                           *)
(***************************************************************************)
EXTENDS Integers, Sequences, FiniteSets

VARIABLES pc, steps, x_steps, y_steps, x, y, max_lag_arg, max_lag,
          lags, msd, log_lags, log_msd, coeffs, err

vars == <<pc, steps, x_steps, y_steps, x, y, max_lag_arg, max_lag,
          lags, msd, log_lags, log_msd, coeffs, err>>

\* Largest step count given on the command line.
MaxSteps == 4

\* Values np.random.normal can draw for one x increment / one y increment.
XIncs == {-1, 0, 1}
YIncs == {0, 1}

\* Step counts tried: negative, zero and positive.
StepsArgs == -1 .. MaxSteps

\* max_lag arguments tried: <<>> is None (argument omitted), <<k>> is k.
MaxLagArgs == {<<>>} \cup {<<k>> : k \in -1 .. MaxSteps + 1}

Min(a, b) == IF a < b THEN a ELSE b
Max(a, b) == IF a > b THEN a ELSE b

(***************************************************************************)
(* numpy / Python primitives, as the code uses them.                       *)
(***************************************************************************)

\* Python's normalisation of a slice bound i for a sequence of length n.
slice_bound(i, n) == IF i < 0 THEN Max(i + n, 0) ELSE Min(i, n)

\* a[k:]
slice_from(a, k) ==
    LET lo == slice_bound(k, Len(a))
    IN  [i \in 1 .. (Len(a) - lo) |-> a[lo + i]]

\* a[:k]
slice_to(a, k) ==
    LET hi == slice_bound(k, Len(a))
    IN  [i \in 1 .. hi |-> a[i]]

\* a - b, elementwise, for arrays of one length.
np_sub(a, b) == [i \in 1 .. Len(a) |-> a[i] - b[i]]

\* a**2 + b**2, elementwise.
sq_add(a, b) == [i \in 1 .. Len(a) |-> a[i] * a[i] + b[i] * b[i]]

\* np.sum: left-to-right accumulation.
np_sum(a) ==
    LET acc[k \in 0 .. Len(a)] == IF k = 0 THEN 0 ELSE acc[k - 1] + a[k]
    IN  acc[Len(a)]

\* A variant of np.mean that divides by one more than the element count.
mean_biased(a) == [num |-> np_sum(a), den |-> Len(a) + 1]

\* np.mean: sum / count; for an empty array this is 0/0 (NaN, with a warning).
np_mean(a) == [num |-> np_sum(a), den |-> Len(a)]

\* A variant of np.cumsum that starts from the origin (exclusive running sum).
cumsum_exclusive(a) ==
    LET acc[k \in 0 .. Len(a)] == IF k = 0 THEN 0 ELSE acc[k - 1] + a[k]
    IN  [k \in 1 .. Len(a) |-> acc[k - 1]]

\* np.cumsum: out[k] = out[k-1] + a[k].
np_cumsum(a) ==
    LET acc[k \in 0 .. Len(a)] == IF k = 0 THEN 0 ELSE acc[k - 1] + a[k]
    IN  [k \in 1 .. Len(a) |-> acc[k]]

\* A variant of np.arange whose last element is stop - 2.
arange_short(start, stop) ==
    [i \in 1 .. Max(stop - start - 1, 0) |-> start + i - 1]

\* np.arange(start, stop): start, start+1, ..., stop-1; empty when stop <= start.
np_arange(start, stop) ==
    [i \in 1 .. Max(stop - start, 0) |-> start + i - 1]

\* np.zeros_like(a, dtype=float)
zeros_like(a) == [i \in 1 .. Len(a) |-> [num |-> 0, den |-> 1]]

\* np.log of a float kept as a fraction: log of a positive number is finite,
\* log(0) is -inf and log of a negative number or of NaN is NaN (numpy warns
\* and returns the value; it does not raise).
np_log(v) ==
    IF v.den = 0 THEN [kind |-> "nan", of |-> v]
    ELSE IF v.num > 0 THEN [kind |-> "finite", of |-> v]
    ELSE IF v.num = 0 THEN [kind |-> "-inf", of |-> v]
    ELSE [kind |-> "nan", of |-> v]

\* np.log of an integer array (the lags).
np_log_ints(a) == [i \in 1 .. Len(a) |-> np_log([num |-> a[i], den |-> 1])]

\* np.log of a float array (the msd values).
np_log_floats(a) == [i \in 1 .. Len(a) |-> np_log(a[i])]

(***************************************************************************)
(* calculate_msd                                                           *)
(***************************************************************************)

\* A variant of the default that takes the whole length.
default_max_lag_full(xs) == Len(xs)

\* max_lag = len(x) // 2
default_max_lag(xs) == Len(xs) \div 2

\* The resolved max_lag: the default when the argument is None.
resolve_max_lag(xs, arg) == IF arg = <<>> THEN default_max_lag(xs) ELSE arg[1]

\* One pass of the loop body for a given lag.
msd_at(xs, ys, lag) ==
    LET dx == np_sub(slice_from(xs, lag), slice_to(xs, -lag))
        dy == np_sub(slice_from(ys, lag), slice_to(ys, -lag))
    IN  np_mean(sq_add(dx, dy))

\* The loop "for lag in lags: msd[lag - 1] = ...", run from the k-th lag on.
RECURSIVE msd_loop(_, _, _, _, _)
msd_loop(xs, ys, ls, m, k) ==
    IF k > Len(ls) THEN m
    ELSE msd_loop(xs, ys, ls, [m EXCEPT ![ls[k]] = msd_at(xs, ys, ls[k])], k + 1)

\* calculate_msd(x, y, max_lag): the pair (lags, msd) it returns.
calculate_msd(xs, ys, arg) ==
    LET ml == resolve_max_lag(xs, arg)
        ls == np_arange(1, ml + 1)
    IN  [lags |-> ls, msd |-> msd_loop(xs, ys, ls, zeros_like(ls), 1)]

(***************************************************************************)
(* calculate_diffusion_coefficient                                         *)
(***************************************************************************)

NonFinite(a) == \E i \in 1 .. Len(a) : a[i].kind # "finite"

\* The outcomes of np.polyfit(log_lags, log_msd, 1): it raises TypeError for
\* an empty x; on a right-hand side holding -inf or NaN the least-squares
\* routine either returns NaN coefficients or fails to converge
\* (LinAlgError), depending on the LAPACK build; otherwise finite coefficients.
polyfit(lx, ly) ==
    IF Len(lx) = 0 THEN {[err |-> "TypeError", coeffs |-> "none"]}
    ELSE IF NonFinite(lx) \/ NonFinite(ly)
         THEN {[err |-> "none", coeffs |-> "nan"],
               [err |-> "LinAlgError", coeffs |-> "none"]}
    ELSE {[err |-> "none", coeffs |-> "finite"]}

(***************************************************************************)
(* The program: __main__ runs the three functions in sequence.             *)
(***************************************************************************)

Init ==
    /\ pc = "start"
    /\ steps = 0
    /\ x_steps = <<>>
    /\ y_steps = <<>>
    /\ x = <<>>
    /\ y = <<>>
    /\ max_lag_arg = <<>>
    /\ max_lag = 0
    /\ lags = <<>>
    /\ msd = <<>>
    /\ log_lags = <<>>
    /\ log_msd = <<>>
    /\ coeffs = "none"
    /\ err = "none"

\* x, y = generate_random_walk(steps), steps >= 0: size=steps draws, then cumsum.
GenerateRandomWalk ==
    /\ pc = "start"
    /\ \E s \in StepsArgs :
          /\ s >= 0
          /\ steps' = s
          /\ \E xs \in [1 .. s -> XIncs], ys \in [1 .. s -> YIncs] :
                /\ x_steps' = xs
                /\ y_steps' = ys
                /\ x' = np_cumsum(xs)
                /\ y' = np_cumsum(ys)
    /\ pc' = "walked"
    /\ UNCHANGED <<max_lag_arg, max_lag, lags, msd, log_lags, log_msd, coeffs, err>>

\* generate_random_walk(steps), steps < 0: np.random.normal rejects a negative
\* size with ValueError; nothing is returned.
GenerateRandomWalkNegative ==
    /\ pc = "start"
    /\ \E s \in StepsArgs :
          /\ s < 0
          /\ steps' = s
    /\ pc' = "walk_failed"
    /\ err' = "ValueError"
    /\ UNCHANGED <<x_steps, y_steps, x, y, max_lag_arg, max_lag, lags, msd,
                   log_lags, log_msd, coeffs>>

\* lags, msd = calculate_msd(x, y, max_lag)
CalculateMsd ==
    /\ pc = "walked"
    /\ \E arg \in MaxLagArgs :
          LET r == calculate_msd(x, y, arg)
          IN  /\ max_lag_arg' = arg
              /\ max_lag' = resolve_max_lag(x, arg)
              /\ lags' = r.lags
              /\ msd' = r.msd
    /\ pc' = "estimated"
    /\ UNCHANGED <<steps, x_steps, y_steps, x, y, log_lags, log_msd, coeffs, err>>

\* calculate_diffusion_coefficient(lags, msd)
CalculateDiffusionCoefficient ==
    /\ pc = "estimated"
    /\ log_lags' = np_log_ints(lags)
    /\ log_msd' = np_log_floats(msd)
    /\ \E out \in polyfit(np_log_ints(lags), np_log_floats(msd)) :
          /\ coeffs' = out.coeffs
          /\ err' = out.err
          /\ pc' = IF out.err = "none" THEN "fitted" ELSE "fit_failed"
    /\ UNCHANGED <<steps, x_steps, y_steps, x, y, max_lag_arg, max_lag, lags, msd>>

Next ==
    \/ GenerateRandomWalk
    \/ GenerateRandomWalkNegative
    \/ CalculateMsd
    \/ CalculateDiffusionCoefficient

Spec == Init /\ [][Next]_vars

(***************************************************************************)
(* Properties                                                              *)
(***************************************************************************)

\* Number of trajectory points.
N == Len(x)

\* calculate_msd has returned its (lags, msd) pair.
MsdReturned == pc \in {"estimated", "fitted", "fit_failed"}

\* generate_random_walk has returned its (x, y) pair.
WalkReturned == pc \in {"walked", "estimated", "fitted", "fit_failed"}

\* Sum over i in 0..n-1 (0-based) of the squared displacement at lag L.
RECURSIVE SqDispSum(_, _)
SqDispSum(L, n) ==
    IF n = 0 THEN 0
    ELSE SqDispSum(L, n - 1)
         + (x[n + L] - x[n]) * (x[n + L] - x[n])
         + (y[n + L] - y[n]) * (y[n + L] - y[n])

\* Sum of the first k increments of a.
RECURSIVE PrefixSum(_, _)
PrefixSum(a, k) == IF k = 0 THEN 0 ELSE a[k] + PrefixSum(a, k - 1)

\* The fraction v equals the integer n.
IsInt(v, n) == v.den # 0 /\ v.num = n * v.den

\* C1: for 1 <= max_lag < N, msd[L] for each L in 1..max_lag is the sum of the
\* squared displacements over i in 0..N-L-1 divided by N-L; the trajectory
\* (0,0),(1,0),(2,0),(3,0) with max_lag = 2 gives [1, 4].
C1_MsdIsMeanOverAllPairs ==
    (MsdReturned /\ 1 <= max_lag /\ max_lag < N) =>
        /\ Len(msd) >= max_lag
        /\ \A L \in 1 .. max_lag :
              /\ msd[L].den # 0
              /\ msd[L].num * (N - L) = SqDispSum(L, N - L) * msd[L].den
        /\ (x = <<0, 1, 2, 3>> /\ y = <<0, 0, 0, 0>> /\ max_lag = 2) =>
              (Len(msd) = 2 /\ IsInt(msd[1], 1) /\ IsInt(msd[2], 4))

C1_Witness ==
    /\ MsdReturned
    /\ x = <<0, 1, 2, 3>>
    /\ y = <<0, 0, 0, 0>>
    /\ max_lag_arg = <<2>>
    /\ Len(msd) = 2

\* C2: calculate_msd called with max_lag >= N raises InvalidArgument (here
\* ValueError) and returns no lag or MSD series (stated for a non-empty
\* trajectory, N >= 1).
C2_MaxLagAtLeastNRejected ==
    (pc = "estimated" /\ N >= 1 /\ max_lag_arg # <<>> /\ max_lag >= N) =>
        (err = "ValueError" /\ lags = <<>> /\ msd = <<>>)

\* C3: for a trajectory of length 1, calculate_msd without max_lag resolves
\* max_lag to 0 and rejects it as InvalidArgument; no empty series is passed
\* on to the fit.
C3_LengthOneDefaultRejected ==
    (pc \in {"estimated", "fitted", "fit_failed"} /\ steps = 1 /\ max_lag_arg = <<>>) =>
        (pc = "estimated" /\ max_lag = 0 /\ err = "ValueError")

\* C4: calculate_diffusion_coefficient given an MSD series holding a value
\* <= 0 raises before the regression: no logarithm series is formed, no
\* coefficients are returned.
C4_NonPositiveMsdRejected ==
    (pc \in {"fitted", "fit_failed"}
        /\ \E i \in 1 .. Len(msd) : msd[i].den # 0 /\ msd[i].num <= 0) =>
        (pc = "fit_failed" /\ err = "ValueError" /\ coeffs = "none" /\ log_msd = <<>>)

\* C5: generate_random_walk called with steps < 1 fails with InvalidArgument
\* (here ValueError); steps = 0 returns no trajectory.
C5_StepsBelowOneRejected ==
    (pc # "start" /\ steps < 1) => (pc = "walk_failed" /\ err = "ValueError")

\* C6: for 1 <= max_lag < N, the lag series and the MSD series both have
\* length max_lag and the lag series is exactly 1, 2, ..., max_lag.
C6_LagSeriesShape ==
    (MsdReturned /\ 1 <= max_lag /\ max_lag < N) =>
        /\ Len(lags) = max_lag
        /\ Len(msd) = max_lag
        /\ \A i \in 1 .. max_lag : lags[i] = i

C6_Witness ==
    /\ pc = "estimated"
    /\ max_lag_arg = <<3>>
    /\ N = 4
    /\ lags = <<1, 2, 3>>

\* C7: for steps >= 1, generate_random_walk returns exactly steps points and
\* point k is the sum of increments 0..k in each coordinate; point 0 is the
\* first increment pair.
C7_WalkIsCumulativeSum ==
    (WalkReturned /\ steps >= 1) =>
        /\ Len(x) = steps
        /\ Len(y) = steps
        /\ \A k \in 1 .. steps :
              /\ x[k] = PrefixSum(x_steps, k)
              /\ y[k] = PrefixSum(y_steps, k)
        /\ x[1] = x_steps[1]
        /\ y[1] = y_steps[1]

C7_Witness ==
    /\ pc = "walked"
    /\ steps = 3
    /\ x_steps = <<1, -1, 1>>
    /\ y_steps = <<1, 1, 0>>
    /\ x = <<1, 0, 1>>
    /\ y = <<1, 2, 2>>

\* C8: every value of the MSD series returned by calculate_msd is a
\* non-negative number (not NaN), whatever the trajectory and max_lag
\* (stated for a non-empty trajectory, N >= 1).
C8_MsdNonNegative ==
    (MsdReturned /\ N >= 1) =>
        \A i \in 1 .. Len(msd) : msd[i].den # 0 /\ msd[i].num >= 0

\* C10: without max_lag on N >= 2 points, the lag series is exactly
\* 1..floor(N/2), 1 <= max_lag < N, and every lag L is averaged over exactly
\* N-L >= 1 displacement pairs.
C10_DefaultWindowNeverEmpty ==
    (MsdReturned /\ max_lag_arg = <<>> /\ N >= 2) =>
        /\ Len(lags) = N \div 2
        /\ \A i \in 1 .. (N \div 2) : lags[i] = i
        /\ 1 <= max_lag
        /\ max_lag < N
        /\ Len(msd) = Len(lags)
        /\ \A i \in 1 .. Len(lags) :
              /\ msd[i].den = N - lags[i]
              /\ msd[i].den >= 1

C10_Witness ==
    /\ pc = "estimated"
    /\ max_lag_arg = <<>>
    /\ N = 4
    /\ lags = <<1, 2>>
    /\ msd[2].den = 2

====
